---------------------------- MODULE Spec2Model ----------------------------
(***************************************************************************)
(* A model of json-conditions: the property-path resolver (isKey,          *)
(* stringToPath with its capped memoization, castPath, baseGet, get) and   *)
(* the rule evaluator checkConditions, in its two source files:            *)
(* src/index.js and src/unnamed/part_000 (the variant with the plain       *)
(* tokenizer and no memoization).                                          *)
(*                                                                         *)
(* JavaScript values are tagged records; each type keeps its payload in a  *)
(* field of its own so that values of different types are comparable:      *)
(*   [t |-> "undefined"]   [t |-> "null"]      [t |-> "boolean", b |-> _]  *)
(*   [t |-> "number", n |-> _]   [t |-> "nan"] (the number NaN)            *)
(*   [t |-> "string", s |-> <<chars>>]   [t |-> "array", a |-> <<values>>] *)
(*   [t |-> "object", o |-> [keys -> values]]                              *)
(* A string is the sequence of its characters, each a one-character        *)
(* string.  Numbers are integers; strings never spell a fractional,        *)
(* signed or exponent numeral, and no key spells an inherited property     *)
(* (constructor, toString, ...) other than length.                         *)
(***************************************************************************)
EXTENDS Integers, Sequences, FiniteSets, TLC

VARIABLES
    variant,        \* which source file runs: "index" or "part_000"
    settings,       \* the settings argument of checkConditions
    reference,      \* the reference argument of checkConditions
    pc,             \* position of the call: "entry", "rules", "aggregate", "done"
    index,          \* index of the next rule the map callback receives (0-based)
    debugStr,       \* the trace: the sequence of its lines
    requiredPassed, \* counter of passed required rules
    normalPassed,   \* counter of passed non-required rules
    results,        \* the booleans the map callback returned so far
    values,         \* the value each evaluated rule compared (observation)
    calls,          \* the calls made to the caller's callbacks, in order
    ret,            \* what the call produced: pending, a return value or a throw
    cache,          \* memoized.cache of stringToPath: key -> path
    memo,           \* observation of the last stringToPath call
    gcall           \* the latest direct get(object, path) call

vars == <<variant, settings, reference, pc, index, debugStr, requiredPassed,
          normalPassed, results, values, calls, ret, cache, memo, gcall>>

-----------------------------------------------------------------------------
(* JavaScript values *)

Undef == [t |-> "undefined"]
Null == [t |-> "null"]
NaN == [t |-> "nan"]
B(b) == [t |-> "boolean", b |-> b]
N(n) == [t |-> "number", n |-> n]
S(s) == [t |-> "string", s |-> s]
A(a) == [t |-> "array", a |-> a]
O(o) == [t |-> "object", o |-> o]

IsNullish(v) == v.t \in {"undefined", "null"}
IsArray(v) == v.t = "array"

\* typeof value
TypeOf(v) ==
    CASE v.t = "nan" -> "number"
      [] v.t \in {"null", "array"} -> "object"
      [] OTHER -> v.t

\* ToBoolean: !!value
Truthy(v) ==
    CASE v.t \in {"undefined", "null", "nan"} -> FALSE
      [] v.t = "boolean" -> v.b
      [] v.t = "number" -> v.n # 0
      [] v.t = "string" -> v.s # <<>>
      [] OTHER -> TRUE

-----------------------------------------------------------------------------
(* Characters and strings *)

Digits == <<"0", "1", "2", "3", "4", "5", "6", "7", "8", "9">>
DigitSet == {Digits[i] : i \in 1..Len(Digits)}
UpperCase == <<"A", "B", "C", "D", "E", "F", "G", "H", "I", "J", "K", "L", "M",
               "N", "O", "P", "Q", "R", "S", "T", "U", "V", "W", "X", "Y", "Z">>
LowerCase == <<"a", "b", "c", "d", "e", "f", "g", "h", "i", "j", "k", "l", "m",
               "n", "o", "p", "q", "r", "s", "t", "u", "v", "w", "x", "y", "z">>
\* the characters \w matches
WordChars == DigitSet \cup {UpperCase[i] : i \in 1..26}
                      \cup {LowerCase[i] : i \in 1..26} \cup {"_"}
WhiteSpace == {" ", "\t", "\n", "\r", "\f"}
Quotes == {"\"", "'"}

\* The characters of the model in code-unit order (ASCII).
CodeOrder ==
    <<"\t", "\n", "\f", "\r", " ", "\"", "'", "(", ")", ",", "-", ".">>
    \o Digits \o <<"?">> \o UpperCase \o <<"[", "\\", "]", "_">> \o LowerCase
CharCode(c) == CHOOSE i \in 1..Len(CodeOrder) : CodeOrder[i] = c

\* String.prototype.toLowerCase, per character
LowerChar(c) ==
    IF \E i \in 1..26 : UpperCase[i] = c
    THEN LowerCase[CHOOSE i \in 1..26 : UpperCase[i] = c]
    ELSE c
toLowerCase(s) == [i \in 1..Len(s) |-> LowerChar(s[i])]

\* substring that keeps the separator after the marker
substring_keep(s, from) == s

\* s.substring(from), from a 0-based index
substring(s, from) == SubSeq(s, from + 1, Len(s))

\* sub occurs in s at the 1-based position p
OccursAt(s, sub, p) ==
    /\ p >= 1
    /\ p + Len(sub) - 1 <= Len(s)
    /\ SubSeq(s, p, p + Len(sub) - 1) = sub

\* String.prototype.includes / startsWith / endsWith
includes(s, sub) == \E p \in 1..(Len(s) + 1) : OccursAt(s, sub, p)
startsWith(s, sub) == OccursAt(s, sub, 1)
endsWith(s, sub) == OccursAt(s, sub, Len(s) - Len(sub) + 1)

\* String.prototype.trim
RECURSIVE TrimLeft(_)
TrimLeft(s) ==
    IF s # <<>> /\ Head(s) \in WhiteSpace THEN TrimLeft(Tail(s)) ELSE s
RECURSIVE TrimRight(_)
TrimRight(s) ==
    IF s # <<>> /\ s[Len(s)] \in WhiteSpace
    THEN TrimRight(SubSeq(s, 1, Len(s) - 1))
    ELSE s
trim(s) == TrimRight(TrimLeft(s))

\* String.prototype.split(sep) for a non-empty separator: the pieces between
\* the non-overlapping occurrences of sep, scanning from the left
RECURSIVE SplitFrom(_, _, _, _)
SplitFrom(s, sep, start, p) ==
    IF p + Len(sep) - 1 > Len(s)
    THEN <<SubSeq(s, start, Len(s))>>
    ELSE IF OccursAt(s, sep, p)
         THEN <<SubSeq(s, start, p - 1)>>
              \o SplitFrom(s, sep, p + Len(sep), p + Len(sep))
         ELSE SplitFrom(s, sep, start, p + 1)
split(s, sep) == SplitFrom(s, sep, 1, 1)

\* The decimal numeral of an integer
RECURSIVE NatDigits(_)
NatDigits(n) ==
    IF n < 10 THEN <<Digits[n + 1]>>
    ELSE NatDigits(n \div 10) \o <<Digits[(n % 10) + 1]>>
IntString(n) == IF n < 0 THEN <<"-">> \o NatDigits(0 - n) ELSE NatDigits(n)

\* The value of a string of decimal digits
RECURSIVE DigitsValue(_, _)
DigitsValue(s, acc) ==
    IF s = <<>> THEN acc
    ELSE DigitsValue(Tail(s),
                     10 * acc + (CHOOSE d \in 0..9 : Digits[d + 1] = Head(s)))

\* A canonical array index: "0", or digits without a leading zero
IsIndexString(s) ==
    /\ s # <<>>
    /\ \A i \in 1..Len(s) : s[i] \in DigitSet
    /\ (Len(s) > 1 => s[1] # "0")

LengthKey == <<"l", "e", "n", "g", "t", "h">>


-----------------------------------------------------------------------------
(* JavaScript coercions and comparisons, on the values of the model *)

RECURSIVE JoinWith(_, _)
JoinWith(strs, sep) ==
    IF strs = <<>> THEN <<>>
    ELSE IF Len(strs) = 1 THEN strs[1]
    ELSE strs[1] \o sep \o JoinWith(Tail(strs), sep)

\* String(v), the conversion a template literal `${v}` applies.  An array
\* joins its elements with ",", a nullish element giving the empty string.
RECURSIVE ToStr(_)
ToStr(v) ==
    CASE v.t = "undefined" -> <<"u", "n", "d", "e", "f", "i", "n", "e", "d">>
      [] v.t = "null" -> <<"n", "u", "l", "l">>
      [] v.t = "nan" -> <<"N", "a", "N">>
      [] v.t = "boolean" -> IF v.b THEN <<"t", "r", "u", "e">>
                                   ELSE <<"f", "a", "l", "s", "e">>
      [] v.t = "number" -> IntString(v.n)
      [] v.t = "string" -> v.s
      [] v.t = "array" ->
            JoinWith([i \in 1..Len(v.a) |->
                         IF IsNullish(v.a[i]) THEN <<>> ELSE ToStr(v.a[i])],
                     <<",">>)
      [] OTHER -> <<"[", "o", "b", "j", "e", "c", "t", " ",
                    "O", "b", "j", "e", "c", "t", "]">>

\* ToPrimitive: arrays and plain objects convert through toString
ToPrimitive(v) == IF v.t \in {"array", "object"} THEN S(ToStr(v)) ELSE v

\* ToNumber of a primitive
ToNumber(v) ==
    CASE v.t = "undefined" -> NaN
      [] v.t = "null" -> N(0)
      [] v.t = "boolean" -> IF v.b THEN N(1) ELSE N(0)
      [] v.t = "string" ->
            LET s == trim(v.s) IN
            IF s = <<>> THEN N(0)
            ELSE IF \A i \in 1..Len(s) : s[i] \in DigitSet
                 THEN N(DigitsValue(s, 0))
                 ELSE NaN
      [] OTHER -> v

\* a === b.  Arrays and objects compare by identity; an array or object of
\* the reference and a rule's comparison value are never the same object.
StrictEq(x, y) ==
    /\ x.t = y.t
    /\ x.t \notin {"nan", "array", "object"}
    /\ x = y

\* SameValueZero, the comparison of Array.prototype.includes
SameValueZero(x, y) == StrictEq(x, y) \/ (x.t = "nan" /\ y.t = "nan")

\* a == b
RECURSIVE LooseEq(_, _)
LooseEq(x, y) ==
    LET numeric(v) == v.t \in {"number", "nan"} IN
    CASE x.t = y.t \/ (numeric(x) /\ numeric(y)) -> StrictEq(x, y)
      [] IsNullish(x) /\ IsNullish(y) -> TRUE
      [] IsNullish(x) \/ IsNullish(y) -> FALSE
      [] numeric(x) /\ y.t = "string" -> StrictEq(x, ToNumber(y))
      [] x.t = "string" /\ numeric(y) -> StrictEq(ToNumber(x), y)
      [] x.t = "boolean" -> LooseEq(ToNumber(x), y)
      [] y.t = "boolean" -> LooseEq(x, ToNumber(y))
      [] x.t \in {"array", "object"} -> LooseEq(ToPrimitive(x), y)
      [] OTHER -> LooseEq(x, ToPrimitive(y))

\* s sorts before u in code-unit order
RECURSIVE StrLess(_, _)
StrLess(s, u) ==
    IF u = <<>> THEN FALSE
    ELSE IF s = <<>> THEN TRUE
    ELSE IF Head(s) = Head(u) THEN StrLess(Tail(s), Tail(u))
    ELSE CharCode(Head(s)) < CharCode(Head(u))

\* The abstract relational comparison x < y: "true", "false" or "undefined"
\* (an operand converts to NaN)
Compare(x, y) ==
    LET px == ToPrimitive(x)
        py == ToPrimitive(y)
    IN  IF px.t = "string" /\ py.t = "string"
        THEN IF StrLess(px.s, py.s) THEN "true" ELSE "false"
        ELSE LET nx == ToNumber(px)
                 ny == ToNumber(py)
             IN  IF nx.t = "nan" \/ ny.t = "nan" THEN "undefined"
                 ELSE IF nx.n < ny.n THEN "true" ELSE "false"

Lt(x, y) == Compare(x, y) = "true"
Gt(x, y) == Compare(y, x) = "true"
Lte(x, y) == Compare(y, x) = "false"
Gte(x, y) == Compare(x, y) = "false"

\* object[key] for a non-nullish object and a string key
Index(object, key) ==
    CASE object.t = "object" ->
            IF key \in DOMAIN object.o THEN object.o[key] ELSE Undef
      [] object.t = "array" ->
            IF key = LengthKey THEN N(Len(object.a))
            ELSE IF IsIndexString(key) /\ DigitsValue(key, 0) < Len(object.a)
                 THEN object.a[DigitsValue(key, 0) + 1]
                 ELSE Undef
      [] object.t = "string" ->
            IF key = LengthKey THEN N(Len(object.s))
            ELSE IF IsIndexString(key) /\ DigitsValue(key, 0) < Len(object.s)
                 THEN S(<<object.s[DigitsValue(key, 0) + 1]>>)
                 ELSE Undef
      [] OTHER -> Undef

\* key in Object(object) for a non-nullish object
HasKey(object, key) ==
    CASE object.t = "object" -> key \in DOMAIN object.o
      [] object.t \in {"array", "string"} ->
            LET n == IF object.t = "array" THEN Len(object.a) ELSE Len(object.s)
            IN  key = LengthKey \/ (IsIndexString(key) /\ DigitsValue(key, 0) < n)
      [] OTHER -> FALSE

-----------------------------------------------------------------------------
(* The path resolver of src/index.js *)

\* reIsPlainProp = /^\w*$/
reIsPlainProp(s) == \A i \in 1..Len(s) : s[i] \in WordChars

\* The lazy body (?:(?!\q)[^\\]|\\.)*? followed by the quote q and "]":
\* the position of the closing quote, scanning from p, or 0.  A character
\* is consumed alone unless it is a backslash, which takes the next one
\* with it; the quote itself can only close.
RECURSIVE QuoteClose(_, _, _)
QuoteClose(s, p, q) ==
    IF p > Len(s) THEN 0
    ELSE IF s[p] = q
         THEN IF p + 1 <= Len(s) /\ s[p + 1] = "]" THEN p ELSE 0
    ELSE IF s[p] = "\\"
         THEN IF p + 1 <= Len(s) THEN QuoteClose(s, p + 2, q) ELSE 0
    ELSE QuoteClose(s, p + 1, q)

\* reIsDeepProp = /\.|\[(?:[^[\]]*|(["'])(?:(?!\1)[^\\]|\\.)*?\1)\]/
reIsDeepProp(s) ==
    \E i \in 1..Len(s) :
        \/ s[i] = "."
        \/ /\ s[i] = "["
           /\ \/ \E j \in (i + 1)..Len(s) :
                    /\ s[j] = "]"
                    /\ \A k \in (i + 1)..(j - 1) : s[k] \notin {"[", "]"}
              \/ /\ i + 1 <= Len(s)
                 /\ s[i + 1] \in Quotes
                 /\ QuoteClose(s, i + 2, s[i + 1]) # 0

\* isKey(value, object) of src/index.js, for a path given as a string or as
\* an array of keys
isKey(value, object) ==
    IF IsArray(value) THEN FALSE
    ELSE IF TypeOf(value) \in {"number", "boolean"} \/ IsNullish(value) THEN TRUE
    ELSE \/ reIsPlainProp(value.s)
         \/ ~reIsDeepProp(value.s)
         \/ (~IsNullish(object) /\ HasKey(object, value.s))

\* reEscapeChar = /\\(\\)?/g replaced by '$1': a backslash goes, unless it
\* is followed by a second one, when the pair leaves one backslash
RECURSIVE Unescape(_)
Unescape(s) ==
    IF s = <<>> THEN <<>>
    ELSE IF Head(s) = "\\"
         THEN IF Len(s) >= 2 /\ s[2] = "\\"
              THEN <<"\\">> \o Unescape(SubSeq(s, 3, Len(s)))
              ELSE Unescape(Tail(s))
    ELSE <<Head(s)>> \o Unescape(Tail(s))

Max(set) == CHOOSE m \in set : \A n \in set : n <= m

\* the lookahead (?:\.|\[\]) at p, giving the position after it, or 0
Separator(s, p) ==
    IF OccursAt(s, <<".">>, p) THEN p + 1
    ELSE IF OccursAt(s, <<"[", "]">>, p) THEN p + 2
    ELSE 0

\* One attempt of rePropName at position p: whether it matches, the
\* position after the match and the key the replace callback pushes.
\*   [^.[\]]+  |  \[(?:([^"'][^[]*)|(["'])((?:(?!\2)[^\\]|\\.)*?)\2)\]
\*             |  (?=(?:\.|\[\])(?:\.|\[\]|$))
rePropName(s, p) ==
    LET nomatch == [ok |-> FALSE, end |-> p, key |-> <<>>]
        plainEnd == CHOOSE e \in p..Len(s) :
                        /\ \A k \in p..e : s[k] \notin {".", "[", "]"}
                        /\ (e < Len(s) => s[e + 1] \in {".", "[", "]"})
        closers == {j \in (p + 2)..Len(s) :
                        /\ s[j] = "]"
                        /\ \A k \in (p + 2)..(j - 1) : s[k] # "["}
        quoteEnd == QuoteClose(s, p + 2, s[p + 1])
        sep == Separator(s, p)
    IN  IF s[p] \notin {".", "[", "]"}
        THEN [ok |-> TRUE, end |-> plainEnd + 1, key |-> SubSeq(s, p, plainEnd)]
        ELSE IF s[p] = "[" /\ p + 1 <= Len(s) /\ s[p + 1] \notin Quotes
                /\ closers # {}
        THEN \* expression: key = expression.trim()
             [ok |-> TRUE, end |-> Max(closers) + 1,
              key |-> trim(SubSeq(s, p + 1, Max(closers) - 1))]
        ELSE IF s[p] = "[" /\ p + 1 <= Len(s) /\ s[p + 1] \in Quotes
                /\ quoteEnd # 0
        THEN \* quote: key = subString.replace(reEscapeChar, '$1')
             [ok |-> TRUE, end |-> quoteEnd + 2,
              key |-> Unescape(SubSeq(s, p + 2, quoteEnd - 1))]
        ELSE IF sep # 0 /\ (sep > Len(s) \/ Separator(s, sep) # 0)
        THEN [ok |-> TRUE, end |-> p, key |-> <<>>]
        ELSE nomatch

\* string.replace(rePropName, callback): the keys pushed, scanning from p.
\* After an empty match the scan resumes one character further.
RECURSIVE PropNames(_, _)
PropNames(s, p) ==
    IF p > Len(s) THEN <<>>
    ELSE LET m == rePropName(s, p) IN
         IF m.ok
         THEN <<S(m.key)>> \o PropNames(s, IF m.end = p THEN p + 1 ELSE m.end)
         ELSE PropNames(s, p + 1)

\* The function stringToPath memoizes (src/index.js): a leading dot
\* contributes an empty first key
stringToPathFunc(s) ==
    (IF s # <<>> /\ s[1] = "." THEN <<S(<<>>)>> ELSE <<>>) \o PropNames(s, 1)

\* castPath(value, object) of src/index.js: a sequence of keys.  The
\* memoized stringToPath returns what stringToPathFunc computes (the cache
\* itself is the subject of StringToPathCall below).
castPath(value, object) ==
    IF IsArray(value) THEN value.a
    ELSE IF isKey(value, object) THEN <<value>>
    ELSE stringToPathFunc(value.s)

\* toKey(value): `${value}` unless it is a string
toKey(value) == IF value.t = "string" THEN value.s ELSE ToStr(value)

\* The loop of baseGet from position i (1-based) of the path:
\* while (object != null && index < length) object = object[toKey(path[index++])]
\* gives the object and the index it stopped at
RECURSIVE baseGetLoop(_, _, _)
baseGetLoop(object, path, i) ==
    IF ~IsNullish(object) /\ i <= Len(path)
    THEN baseGetLoop(Index(object, toKey(path[i])), path, i + 1)
    ELSE [object |-> object, index |-> i - 1]

\* baseGet(object, path): (index && index == length) ? object : undefined
baseGet(object, path) ==
    LET p == castPath(path, object)
        r == baseGetLoop(object, p, 1)
    IN  IF r.index # 0 /\ r.index = Len(p) THEN r.object ELSE Undef

\* get(object, path) of src/index.js, defaultValue undefined
get(object, path) ==
    IF IsNullish(object) THEN Undef ELSE baseGet(object, path)

\* toString(value) of src/index.js, the stringification of startsWith,
\* endsWith and contains: nullish gives '', an array converts its elements
\* first (a nullish element stays) and is then joined by the template
RECURSIVE toString(_)
toString(value) ==
    IF IsNullish(value) THEN <<>>
    ELSE IF value.t = "string" THEN value.s
    ELSE IF IsArray(value)
         THEN ToStr(A([i \in 1..Len(value.a) |->
                          IF IsNullish(value.a[i]) THEN value.a[i]
                          ELSE S(toString(value.a[i]))]))
    ELSE ToStr(value)

-----------------------------------------------------------------------------
(* The path resolver of src/unnamed/part_000 *)

TypeError == [t |-> "TypeError"]

\* isKey(value, object): no array test; RegExp.prototype.test converts its
\* argument to a string, and so does the in operator
isKey_part(value, object) ==
    IF TypeOf(value) \in {"number", "boolean"} \/ IsNullish(value) THEN TRUE
    ELSE \/ reIsPlainProp(ToStr(value))
         \/ ~reIsDeepProp(ToStr(value))
         \/ (~IsNullish(object) /\ HasKey(object, ToStr(value)))

\* string.replace(/[^.[\]]+/g, match => result.push(match)) from p
RECURSIVE stringToPathFrom_part(_, _)
stringToPathFrom_part(s, p) ==
    IF p > Len(s) THEN <<>>
    ELSE IF s[p] \in {".", "[", "]"} THEN stringToPathFrom_part(s, p + 1)
    ELSE LET e == CHOOSE e \in p..Len(s) :
                      /\ \A k \in p..e : s[k] \notin {".", "[", "]"}
                      /\ (e < Len(s) => s[e + 1] \in {".", "[", "]"})
         IN  <<S(SubSeq(s, p, e))>> \o stringToPathFrom_part(s, e + 1)

\* stringToPath(string)
stringToPath_part(string) == stringToPathFrom_part(string, 1)

\* castPath(value, object): the path, or threw when stringToPath receives
\* an array, which has no replace method
castPath_part(value, object) ==
    IF isKey_part(value, object) THEN [threw |-> FALSE, path |-> <<value>>]
    ELSE IF value.t = "string"
         THEN [threw |-> FALSE, path |-> stringToPath_part(value.s)]
    ELSE [threw |-> TRUE, path |-> <<>>]

\* get(object, path) of src/unnamed/part_000
get_part(object, path) ==
    LET p == castPath_part(path, object) IN
    IF p.threw THEN TypeError
    ELSE LET r == baseGetLoop(object, p.path, 1)
         IN  IF r.index # 0 /\ r.index = Len(p.path) THEN r.object ELSE Undef

\* toString(value) of src/unnamed/part_000
toString_part(value) ==
    IF IsNullish(value) THEN <<>>
    ELSE IF value.t = "string" THEN value.s
    ELSE ToStr(value)

\* The resolver and the stringification of the file that runs
Get(file, object, path) ==
    IF file = "index" THEN get(object, path) ELSE get_part(object, path)
Stringify(file, value) ==
    IF file = "index" THEN toString(value) ELSE toString_part(value)

-----------------------------------------------------------------------------
(* The capped memoization of stringToPath (src/index.js) *)

MAX_MEMOIZE_SIZE == 500

EmptyCache == <<>>

\* the cache cleared only once it has outgrown MAX_MEMOIZE_SIZE
memoizeCapped_late(c) ==
    IF Cardinality(DOMAIN c) > MAX_MEMOIZE_SIZE THEN EmptyCache ELSE c

\* The resolver memoizeCapped hands to memoize: clear the cache when it
\* holds exactly MAX_MEMOIZE_SIZE entries
memoizeCapped(c) ==
    IF Cardinality(DOMAIN c) = MAX_MEMOIZE_SIZE THEN EmptyCache ELSE c

\* One call of the memoized function: the resolver runs first, then the
\* lookup; a miss computes the path and stores it
memoize(c, key) ==
    LET cleared == memoizeCapped(c)
        hit == key \in DOMAIN cleared
        result == IF hit THEN cleared[key] ELSE stringToPathFunc(key)
    IN  [cache |-> IF hit THEN cleared
                   ELSE [k \in DOMAIN cleared \cup {key} |->
                            IF k = key THEN result ELSE cleared[k]],
         result |-> result,
         hit |-> hit]

\* stringToPath called on each key of a sequence, in order
RECURSIVE stringToPath(_, _)
stringToPath(c, keys) ==
    IF keys = <<>> THEN c
    ELSE stringToPath(memoize(c, Head(keys)).cache, Tail(keys))

\* The key get(object, path) passes to stringToPath (src/index.js), if any:
\* none when object is nullish or the path is a key of its own
PathKey(object, path) ==
    IF IsNullish(object) \/ isKey(S(path), object) THEN <<>> ELSE <<path>>

RECURSIVE Flatten(_)
Flatten(seqs) == IF seqs = <<>> THEN <<>> ELSE Head(seqs) \o Flatten(Tail(seqs))

-----------------------------------------------------------------------------
(* checkConditions: one rule of settings.rules.map *)

Ops == {"eq", "ne", "neq", "gt", "gte", "lt", "lte", "startsWith", "endsWith",
        "contains", "present", "empty", "absent", "all", "some", "none",
        "crosses"}

Wildcard == <<"[", "]">>

\* The caller's transformValueFn, one of two pure functions of the model
transformValueFn(fn, targetValue, ref, property) ==
    IF fn = "toNumber" /\ targetValue.t = "string" THEN ToNumber(targetValue)
    ELSE targetValue

\* value.find(v => v !== targetValue): the first such element, or undefined
RECURSIVE find(_, _)
find(arr, targetValue) ==
    IF arr = <<>> THEN Undef
    ELSE IF ~StrictEq(Head(arr), targetValue) THEN Head(arr)
    ELSE find(Tail(arr), targetValue)

\* Array.prototype.includes
arrayIncludes(arr, targetValue) ==
    \E i \in 1..Len(arr) : SameValueZero(arr[i], targetValue)

\* The boolean/string alternate reading: <<>> for null, else <<boolean>>
altComparison(value, targetValue) ==
    IF TypeOf(value) = "boolean" /\ targetValue.t = "string"
    THEN IF toLowerCase(targetValue.s) = <<"t", "r", "u", "e">> THEN <<B(TRUE)>>
         ELSE IF toLowerCase(targetValue.s) = <<"f", "a", "l", "s", "e">>
              THEN <<B(FALSE)>>
         ELSE <<>>
    ELSE <<>>

\* The switch on rule.op, for the operators that need no callback
compare(file, op, value, targetValue) ==
    LET alt == altComparison(value, targetValue) IN
    CASE op = "eq" ->
            LooseEq(value, targetValue) \/ (alt # <<>> /\ LooseEq(value, alt[1]))
      [] op \in {"ne", "neq"} ->
            ~LooseEq(value, targetValue) /\ (alt # <<>> => ~LooseEq(value, alt[1]))
      [] op = "gt" -> Gt(value, targetValue)
      [] op = "gte" -> Gte(value, targetValue)
      [] op = "lt" -> Lt(value, targetValue)
      [] op = "lte" -> Lte(value, targetValue)
      [] op = "startsWith" -> startsWith(Stringify(file, value), ToStr(targetValue))
      [] op = "endsWith" -> endsWith(Stringify(file, value), ToStr(targetValue))
      [] op = "contains" -> includes(Stringify(file, value), ToStr(targetValue))
      [] op = "present" -> Truthy(value)
      [] op \in {"empty", "absent"} -> ~Truthy(value)
      [] op = "all" -> IsArray(value) /\ ~Truthy(find(value.a, targetValue))
      [] op = "some" -> IsArray(value) /\ arrayIncludes(value.a, targetValue)
      [] op = "none" ->
            /\ IsArray(value) \/ IsNullish(value)
            /\ ~arrayIncludes(IF Truthy(value) THEN value.a ELSE <<>>, targetValue)

\* crosses with the threshold strictly below the current value
crosses_strict(targetValue, lastValue, value) ==
    Gt(targetValue, lastValue) /\ Lt(targetValue, value)

\* targetValue > lastValue && targetValue <= value
crosses(targetValue, lastValue, value) ==
    Gt(targetValue, lastValue) /\ Lte(targetValue, value)

\* The errors checkConditions throws.  message is the template, index and
\* op what it interpolates (index -1, op "": not interpolated), rule the
\* error.rule property when it is set.
PropertyError(i, rule) ==
    [name |-> "Error", message |-> "Property not specified for rule ${index}",
     index |-> i, op |-> "", rule |-> <<rule>>]
UnknownOpError(i, rule) ==
    [name |-> "Error", message |-> "Unknown comparison for rule (${rule.op})",
     index |-> -1, op |-> rule.op, rule |-> <<rule>>]
CrossesError ==
    [name |-> "Error",
     message |-> "Comparison \"crosses\" selected, but no function supplied to return previous value",
     index |-> -1, op |-> "", rule |-> <<>>]
MapTypeError ==
    [name |-> "TypeError", message |-> "get(...).map is not a function",
     index |-> -1, op |-> "", rule |-> <<>>]

NoLines == <<>>
Call(fn, i, arg) == [fn |-> fn, rule |-> i, arg |-> arg, trace |-> NoLines]

\* `(${index}) ${rule.property} (${value}) ${unary ? "is" : ""} ${rule.op}
\*  ${unary ? "" : targetValue}? ${result}\n`
RuleLine(i, rule, value, targetValue, result) ==
    LET unary == rule.op \in {"absent", "present"} IN
    [kind |-> "rule", index |-> i, property |-> ToStr(rule.property),
     value |-> ToStr(value), is |-> unary, op |-> rule.op,
     target |-> IF unary THEN <<>> ELSE ToStr(targetValue),
     result |-> result]

\* `(${index}) ${rule.property} was ${lastValue} and became ${value}.
\*  crossed ${targetValue}? ${result}\n`
CrossesLine(i, rule, lastValue, value, targetValue, result) ==
    [kind |-> "crosses", index |-> i, property |-> ToStr(rule.property),
     was |-> ToStr(lastValue), became |-> ToStr(value),
     crossed |-> ToStr(targetValue), result |-> result]

\* The trace after the crosses case ran: debugStr = `...`
crossesDebugStr(dbg, line) == <<line>>

\* The map callback raised error, having made these callback calls and
\* passed these keys to stringToPath
Thrown(error, made, keys, dbg) ==
    [threw |-> TRUE, error |-> error, calls |-> made, keys |-> keys,
     value |-> Undef, result |-> FALSE, debugStr |-> dbg]

\* The end of the map callback: the crosses line replaces the trace, the
\* rule's line is appended, the result is returned
traceStage(dbg, rule, i, value, keys, targetValue, made, lastValue, result) ==
    [threw |-> FALSE, error |-> CrossesError, calls |-> made, keys |-> keys,
     value |-> value, result |-> result,
     debugStr |->
         (IF rule.op = "crosses"
          THEN crossesDebugStr(dbg, CrossesLine(i, rule, lastValue, value,
                                                targetValue, result))
          ELSE dbg)
         \o <<RuleLine(i, rule, value, targetValue, result)>>]

\* case "crosses": previousValueFn must be a function; it is called with
\* (reference, rule.property).  index.js first logs its type to the console.
crossesStage(file, st, dbg, rule, i, value, keys, targetValue, made) ==
    IF st.previousValueFn = <<>>
    THEN Thrown(CrossesError, made, keys, dbg)
    ELSE traceStage(dbg, rule, i, value, keys, targetValue,
                    Append(made, Call("previousValueFn", i, rule.property)),
                    st.previousValueFn[1],
                    crosses(targetValue, st.previousValueFn[1], value))

\* switch (rule.op)
opStage(file, st, dbg, rule, i, value, keys, targetValue, made) ==
    IF rule.op = "crosses"
    THEN crossesStage(file, st, dbg, rule, i, value, keys, targetValue,
                      IF file = "index"
                      THEN Append(made, Call("console.log", i, Undef))
                      ELSE made)
    ELSE IF rule.op \notin Ops
    THEN Thrown(UnknownOpError(i, rule), made, keys, dbg)
    ELSE traceStage(dbg, rule, i, value, keys, targetValue, made, Undef,
                    compare(file, rule.op, value, targetValue))

\* let targetValue = rule.value, passed through settings.transformValueFn
\* when that is a function
targetStage(file, st, ref, dbg, rule, i, value, keys) ==
    IF st.transformValueFn # "none"
    THEN opStage(file, st, dbg, rule, i, value, keys,
                 transformValueFn(st.transformValueFn, rule.value, ref,
                                  rule.property),
                 <<Call("transformValueFn", i, rule.value)>>)
    ELSE opStage(file, st, dbg, rule, i, value, keys, rule.value, <<>>)

\* get(reference, topPath).map(item => nestedPath ? get(item, nestedPath) : item)
wildcardMap(file, st, ref, dbg, rule, i, collection, nestedPath, keys) ==
    IF ~IsArray(collection)
    THEN Thrown(MapTypeError, <<>>, keys, dbg)
    ELSE targetStage(file, st, ref, dbg, rule, i,
             A([k \in 1..Len(collection.a) |->
                   IF nestedPath # <<>>
                   THEN Get(file, collection.a[k], S(nestedPath))
                   ELSE collection.a[k]]),
             IF nestedPath # <<>>
             THEN keys \o Flatten([k \in 1..Len(collection.a) |->
                                      PathKey(collection.a[k], nestedPath)])
             ELSE keys)

\* let [topPath, nestedPath] = rule.property.split("[]");
\* nestedPath = nestedPath.substring(1);
wildcardStage(file, st, ref, dbg, rule, i, parts) ==
    wildcardMap(file, st, ref, dbg, rule, i,
                Get(file, ref, S(parts[1])),
                substring(parts[2], 1),
                PathKey(ref, rule.property.s) \o PathKey(ref, parts[1]))

\* The map callback on rule (0-based index i), a rule whose property is a
\* string when it is truthy.  threw tells whether it raised error; calls are
\* the callback calls it made, keys the strings it passed to stringToPath,
\* value the value it compared.
ruleCallback(file, st, ref, dbg, rule, i) ==
    IF ~Truthy(rule.property)
    THEN Thrown(PropertyError(i, rule), <<>>, <<>>, dbg)
    ELSE IF includes(rule.property.s, Wildcard)
    THEN wildcardStage(file, st, ref, dbg, rule, i,
                       split(rule.property.s, Wildcard))
    ELSE targetStage(file, st, ref, dbg, rule, i,
                     Get(file, ref, rule.property),
                     PathKey(ref, rule.property.s))

-----------------------------------------------------------------------------
(* checkConditions(settings, reference) *)

Pending == [kind |-> "pending"]
Return(v) == [kind |-> "return", value |-> v]
Throw(e) == [kind |-> "throw", error |-> e]

\* settings.rules.reduce((total, rule) => total + (rule.required ? 1 : 0), 0)
RECURSIVE requiredTotal(_)
requiredTotal(rules) ==
    IF rules = <<>> THEN 0
    ELSE (IF Head(rules).required THEN 1 ELSE 0) + requiredTotal(Tail(rules))

\* settings.satisfy || "ANY"
satisfyOf(st) ==
    IF Truthy(st.satisfy) THEN st.satisfy ELSE S(<<"A", "N", "Y">>)

\* required rules satisfied as soon as one of them passed
requiredSatisfied_partial(total, passed) == total = 0 \/ passed > 0

requiredSatisfied(total, passed) == total = 0 \/ total = passed

normalSatisfied(satisfy, total, passed) ==
    \/ total = 0
    \/ IF StrictEq(satisfy, S(<<"A", "L", "L">>)) THEN passed = total
       ELSE passed > 0

\* checkConditions answering false, not null, without a rule array
Enter_false ==
    /\ pc = "entry"
    /\ IF ~(settings.isSet /\ settings.rulesIsArray)
       THEN /\ ret' = Return(B(FALSE))
            /\ pc' = "done"
       ELSE /\ ret' = ret
            /\ pc' = "rules"
    /\ debugStr' = <<>>
    /\ requiredPassed' = 0
    /\ normalPassed' = 0
    /\ UNCHANGED <<variant, settings, reference, index, results, values, calls,
                   cache, memo, gcall>>

\* if (!(settings && Array.isArray(settings.rules))) return null;
Enter ==
    /\ pc = "entry"
    /\ IF ~(settings.isSet /\ settings.rulesIsArray)
       THEN /\ ret' = Return(Null)
            /\ pc' = "done"
       ELSE /\ ret' = ret
            /\ pc' = "rules"
    /\ debugStr' = NoLines
    /\ requiredPassed' = 0
    /\ normalPassed' = 0
    /\ UNCHANGED <<variant, settings, reference, index, results, values, calls,
                   cache, memo, gcall>>

\* What one call r of the map callback on rule does to the state
MapStep(rule, r) ==
    /\ calls' = calls \o r.calls
    /\ cache' = IF variant = "index" THEN stringToPath(cache, r.keys) ELSE cache
    /\ IF r.threw
       THEN /\ ret' = Throw(r.error)
            /\ pc' = "done"
            /\ UNCHANGED <<index, debugStr, requiredPassed, normalPassed,
                           results, values>>
       ELSE /\ requiredPassed' =
                   IF r.result /\ rule.required THEN requiredPassed + 1
                   ELSE requiredPassed
            /\ normalPassed' =
                   IF r.result /\ ~rule.required THEN normalPassed + 1
                   ELSE normalPassed
            /\ debugStr' = r.debugStr
            /\ results' = Append(results, r.result)
            /\ values' = Append(values, r.value)
            /\ index' = index + 1
            /\ UNCHANGED <<ret, pc>>

\* One call of the map callback, on settings.rules[index]
EvalRule ==
    /\ pc = "rules"
    /\ index < Len(settings.rules)
    /\ MapStep(settings.rules[index + 1],
               ruleCallback(variant, settings, reference, debugStr,
                            settings.rules[index + 1], index))
    /\ UNCHANGED <<variant, settings, reference, memo, gcall>>

\* The totals, the outcome, the summary lines, settings.log and the return
Aggregate ==
    /\ pc = "rules"
    /\ index = Len(settings.rules)
    /\ LET reqTotal == requiredTotal(settings.rules)
           normalTotal == Len(settings.rules) - reqTotal
           satisfy == satisfyOf(settings)
           reqOk == requiredSatisfied(reqTotal, requiredPassed)
           normOk == normalSatisfied(satisfy, normalTotal, normalPassed)
           outcome == normOk /\ reqOk
           trace ==
               debugStr
               \o (IF normalTotal > 0
                   THEN <<[kind |-> "normal", passed |-> normalPassed,
                           total |-> normalTotal, need |-> ToStr(satisfy),
                           pass |-> normOk]>>
                   ELSE <<>>)
               \o (IF reqTotal > 0
                   THEN <<[kind |-> "required", passed |-> requiredPassed,
                           total |-> reqTotal, pass |-> reqOk]>>
                   ELSE <<>>)
               \o <<[kind |-> "result", pass |-> outcome]>>
       IN  /\ debugStr' = trace
           /\ calls' = IF settings.log
                       THEN Append(calls, [fn |-> "log", rule |-> index,
                                           arg |-> Undef, trace |-> trace])
                       ELSE calls
           /\ ret' = Return(B(outcome))
    /\ pc' = "done"
    /\ UNCHANGED <<variant, settings, reference, index, requiredPassed,
                   normalPassed, results, values, cache, memo, gcall>>

Next == Enter \/ EvalRule \/ Aggregate

-----------------------------------------------------------------------------
(* The inputs of the model *)

MaxRules == 3

Obj1(k, v) == O([x \in {k} |-> v])

\* { a: {b: 10}, "a.b": 5, x: 10, f: true, s: "ab", n: null,
\*   l: [{v: 1}, {v: 1}], m: [{v: 1}, {v: 0}, null], k: [1, 7], e: [] }
RefMain ==
    LET v == <<"v">> IN
    O([key \in {<<"a">>, <<"a", ".", "b">>, <<"x">>, <<"f">>, <<"s">>, <<"n">>,
                <<"l">>, <<"m">>, <<"k">>, <<"e">>} |->
         CASE key = <<"a">> -> Obj1(<<"b">>, N(10))
           [] key = <<"a", ".", "b">> -> N(5)
           [] key = <<"x">> -> N(10)
           [] key = <<"f">> -> B(TRUE)
           [] key = <<"s">> -> S(<<"a", "b">>)
           [] key = <<"n">> -> Null
           [] key = <<"l">> -> A(<<Obj1(v, N(1)), Obj1(v, N(1))>>)
           [] key = <<"m">> -> A(<<Obj1(v, N(1)), Obj1(v, N(0)), Null>>)
           [] key = <<"k">> -> A(<<N(1), N(7)>>)
           [] key = <<"e">> -> A(<<>>)])

\* { x: {b: 1}, l: [], m: "ab" }
RefOther ==
    O([key \in {<<"x">>, <<"l">>, <<"m">>} |->
         CASE key = <<"x">> -> Obj1(<<"b">>, N(1))
           [] key = <<"l">> -> A(<<>>)
           [] key = <<"m">> -> S(<<"a", "b">>)])

References == {RefMain, RefOther, Undef}

Properties ==
    { <<"x">>, <<"f">>, <<"s">>,
      <<"a", ".", "b">>, <<"a", ".", ".", "b">>, <<"x", ".", "b">>,
      <<"n", ".", "q">>, <<"l", "[", "0", "]", ".", "v">>, <<"k", "[", "1", "]">>,
      <<"l", "[", "]", ".", "v">>, <<"m", "[", "]", ".", "v">>,
      <<"l", "[", "]">>, <<"k", "[", "]">>, <<"e", "[", "]">>,
      <<"z", "[", "]", ".", "v">>, <<"a", "[", "]", ".", "b">> }

TargetValues ==
    { Undef, B(TRUE), N(0), N(1), N(5), N(7), N(10), N(12), S(<<"1">>),
      S(<<"T", "r", "u", "e">>), S(<<"a">>) }

Rule(property, op, value, required) ==
    [property |-> property, op |-> op, value |-> value, required |-> required]

\* A passing and a failing normal rule, a passing and a failing required
\* rule, a crosses rule, a rule without property, a rule of unknown op
RulePool ==
    { Rule(S(<<"x">>), "gte", N(10), FALSE),
      Rule(S(<<"x">>), "lt", N(10), FALSE),
      Rule(S(<<"x">>), "eq", S(<<"1", "0">>), TRUE),
      Rule(S(<<"n", ".", "q">>), "present", Undef, TRUE),
      Rule(S(<<"x">>), "crosses", N(7), FALSE),
      Rule(Undef, "eq", N(1), FALSE),
      Rule(S(<<"x">>), "bogus", N(1), TRUE) }

RECURSIVE SeqsUpTo(_, _)
SeqsUpTo(set, n) ==
    IF n = 0 THEN {<<>>}
    ELSE LET shorter == SeqsUpTo(set, n - 1)
         IN  shorter \cup {Append(s, e) : s \in shorter, e \in set}

Settings(rules, satisfy, transform, previous, log) ==
    [isSet |-> TRUE, rulesIsArray |-> TRUE, rules |-> rules, satisfy |-> satisfy,
     transformValueFn |-> transform, previousValueFn |-> previous, log |-> log]

\* settings absent, and settings whose rules is not an array
NoSettings ==
    [Settings(<<>>, Undef, "none", <<>>, FALSE) EXCEPT !.isSet = FALSE,
                                                        !.rulesIsArray = FALSE]
NoRules ==
    [Settings(<<>>, S(<<"A", "L", "L">>), "none", <<>>, TRUE)
        EXCEPT !.rulesIsArray = FALSE]

\* Rule sets over the rule pool, under each policy, with and without the
\* callbacks (previousValueFn returning 5)
PoolSettings ==
    { Settings(rules, satisfy, cb[1], cb[2], cb[3]) :
        rules \in SeqsUpTo(RulePool, MaxRules),
        satisfy \in {Undef, S(<<"A", "L", "L">>), S(<<"A", "N", "Y">>)},
        cb \in {<<"none", <<>>, FALSE>>, <<"toNumber", <<>>, TRUE>>,
                <<"toNumber", <<N(5)>>, TRUE>>} }

\* One rule of every property, operator and comparison value
WideSettings ==
    { Settings(<<Rule(S(p), op, v, FALSE)>>, Undef, "none", <<N(5)>>, TRUE) :
        p \in Properties, op \in Ops \cup {"bogus"}, v \in TargetValues }

Idle == [called |-> FALSE]

Init ==
    /\ variant \in {"index", "part_000"}
    /\ \/ /\ settings \in PoolSettings \cup {NoSettings, NoRules}
          /\ reference = RefMain
       \/ /\ settings \in WideSettings
          /\ reference \in References
    /\ pc = "entry"
    /\ index = 0
    /\ debugStr = NoLines
    /\ requiredPassed = 0
    /\ normalPassed = 0
    /\ results = <<>>
    /\ values = <<>>
    /\ calls = <<>>
    /\ ret = Pending
    /\ cache = EmptyCache
    /\ memo = Idle
    /\ gcall = Idle

Spec == Init /\ [][Next]_vars

-----------------------------------------------------------------------------
(* The resolver on pre-split paths: get(object, path), path an array of keys *)

MaxPathLen == 3

PathKeys ==
    { S(<<"a">>), S(<<"b">>), S(<<"x">>), S(<<"n">>), S(<<"a", ".", "b">>), S(<<"v">>),
      S(<<"0">>), N(1), S(<<>>) }

\* { "": 3, a: {b: 10, "": null}, "a,b": 7 }
RefKeys ==
    O([key \in {<<>>, <<"a">>, <<"a", ",", "b">>} |->
         CASE key = <<>> -> N(3)
           [] key = <<"a">> ->
                O([k \in {<<"b">>, <<>>} |-> IF k = <<>> THEN Null ELSE N(10)])
           [] key = <<"a", ",", "b">> -> N(7)])

GetObjects == {RefMain, RefOther, RefKeys, Null, Undef}

InitGet ==
    /\ gcall \in { [called |-> FALSE, file |-> f, object |-> o, path |-> p,
                    result |-> Undef] :
                      f \in {"index", "part_000"}, o \in GetObjects,
                      p \in SeqsUpTo(PathKeys, MaxPathLen) }
    /\ variant = gcall.file
    /\ settings = NoSettings
    /\ reference = gcall.object
    /\ pc = "get"
    /\ index = 0
    /\ debugStr = NoLines
    /\ requiredPassed = 0
    /\ normalPassed = 0
    /\ results = <<>>
    /\ values = <<>>
    /\ calls = <<>>
    /\ ret = Pending
    /\ cache = EmptyCache
    /\ memo = Idle

\* get(object, path) with the path given as an array; a path array is
\* never tokenized, so the cache is left alone
GetCall ==
    /\ pc = "get"
    /\ ~gcall.called
    /\ gcall' = [gcall EXCEPT !.called = TRUE,
                              !.result = Get(gcall.file, gcall.object,
                                             A(gcall.path))]
    /\ UNCHANGED <<variant, settings, reference, pc, index, debugStr,
                   requiredPassed, normalPassed, results, values, calls, ret,
                   cache, memo>>

NextGet == GetCall

SpecGet == InitGet /\ [][NextGet]_vars

-----------------------------------------------------------------------------
(* The memoized stringToPath under a stream of calls *)

MaxKeys == 1010

KeyAlphabet == <<"[", "'", "]", ".", "a">>

\* The n-th path string over KeyAlphabet, shortest first
RECURSIVE KeyString(_)
KeyString(n) ==
    IF n < Len(KeyAlphabet) THEN <<KeyAlphabet[n + 1]>>
    ELSE KeyString((n \div Len(KeyAlphabet)) - 1)
         \o <<KeyAlphabet[(n % Len(KeyAlphabet)) + 1]>>

InitCache ==
    /\ cache = EmptyCache
    /\ memo = [called |-> FALSE, key |-> <<>>, result |-> <<>>, sizeBefore |-> 0,
               wasCached |-> FALSE, hit |-> FALSE, fresh |-> 0]
    /\ variant = "index"
    /\ settings = NoSettings
    /\ reference = Undef
    /\ pc = "stringToPath"
    /\ index = 0
    /\ debugStr = NoLines
    /\ requiredPassed = 0
    /\ normalPassed = 0
    /\ results = <<>>
    /\ values = <<>>
    /\ calls = <<>>
    /\ ret = Pending
    /\ gcall = Idle

\* The strings a caller passes next: the next string never passed before,
\* or again the first or the latest of those passed so far
CallKeys ==
    (IF memo.fresh < MaxKeys THEN {memo.fresh} ELSE {})
    \cup (IF memo.fresh > 0 THEN {0, memo.fresh - 1} ELSE {})

\* One call stringToPath(string) of src/index.js
StringToPathCall ==
    /\ pc = "stringToPath"
    /\ \E n \in CallKeys :
          LET key == KeyString(n) IN
          /\ cache' = memoize(cache, key).cache
          /\ memo' = [called |-> TRUE, key |-> key,
                      result |-> memoize(cache, key).result,
                      sizeBefore |-> Cardinality(DOMAIN cache),
                      wasCached |-> key \in DOMAIN cache,
                      hit |-> memoize(cache, key).hit,
                      fresh |-> IF n = memo.fresh THEN n + 1 ELSE memo.fresh]
    /\ UNCHANGED <<variant, settings, reference, pc, index, debugStr,
                   requiredPassed, normalPassed, results, values, calls, ret,
                   gcall>>

NextCache == StringToPathCall

SpecCache == InitCache /\ [][NextCache]_vars

-----------------------------------------------------------------------------
(* Properties *)

ALL == S(<<"A", "L", "L">>)
Returned == pc = "done" /\ ret.kind = "return"
Threw == pc = "done" /\ ret.kind = "throw"
Entered == settings.isSet /\ settings.rulesIsArray
RuleAt(j) == settings.rules[j]
Required == {j \in 1..Len(settings.rules) : RuleAt(j).required}
Normal == {j \in 1..Len(settings.rules) : ~RuleAt(j).required}

\* The comparison value of a rule: rule.value through the transform, if any
TargetOf(rule) ==
    IF settings.transformValueFn # "none"
    THEN transformValueFn(settings.transformValueFn, rule.value, reference,
                          rule.property)
    ELSE rule.value

\* C1: when every rule evaluated without raising, checkConditions returns
\* true exactly when every required rule passed (or there is none) and
\* there is no non-required rule, or with satisfy "ALL" every non-required
\* rule passed, or otherwise at least one non-required rule passed.
C1_Outcome ==
    (Returned /\ Entered) =>
        ret.value =
            B(/\ \A j \in Required : results[j]
              /\ \/ Normal = {}
                 \/ IF settings.satisfy = ALL
                    THEN \A j \in Normal : results[j]
                    ELSE \E j \in Normal : results[j])

\* A single failing required rule among passing rules, under the ANY
\* default, makes the result false
C1_Witness ==
    /\ Returned
    /\ Len(settings.rules) = MaxRules
    /\ settings.satisfy = Undef
    /\ \E j \in Required :
          /\ ~results[j]
          /\ \A k \in 1..Len(results) : k # j => results[k]
    /\ Normal # {}
    /\ ret.value = B(FALSE)

\* C2: a rule with a truthy property and a recognized op (other than
\* crosses without previousValueFn) never makes checkConditions raise,
\* whatever the reference holds at its path.
C2_NeverRaises ==
    Threw =>
        LET rule == RuleAt(index + 1) IN
        \/ ~Truthy(rule.property)
        \/ rule.op \notin Ops
        \/ (rule.op = "crosses" /\ settings.previousValueFn = <<>>)

\* C3: the result of an all rule is true exactly when the value is an
\* array and every element strictly equals targetValue.
C3_AllStrict ==
    \A j \in 1..Len(results) :
        RuleAt(j).op = "all" =>
            results[j] =
                (/\ IsArray(values[j])
                 /\ \A k \in 1..Len(values[j].a) :
                        StrictEq(values[j].a[k], TargetOf(RuleAt(j))))

\* C4: the error raised for a rule without property, and the error raised
\* for a rule of unknown op, identifies the index of the rule in
\* settings.rules and carries the rule.
C4_AuthoringError ==
    (/\ pc = "done"
     /\ Entered
     /\ index < Len(settings.rules)
     /\ \/ ~Truthy(RuleAt(index + 1).property)
        \/ /\ RuleAt(index + 1).op \notin Ops
           /\ ~includes(RuleAt(index + 1).property.s, Wildcard))
    => /\ ret.kind = "throw"
       /\ ret.error.index = index
       /\ ret.error.rule = <<RuleAt(index + 1)>>

IsRuleLine(line) == line.kind = "rule"

\* the line of rule j (1-based) as the trace should hold it
LineOf(line, j) ==
    /\ line.index = j - 1
    /\ line.property = ToStr(RuleAt(j).property)
    /\ line.value = ToStr(values[j])
    /\ line.op = RuleAt(j).op
    /\ line.result = results[j]

\* C5: after rule i is processed the trace holds, in rule order, the lines
\* of rules 0..i; a crosses rule adds its line without removing any.
C5_TraceKeepsLines ==
    (pc = "rules" \/ Returned) =>
        LET lines == SelectSeq(debugStr, IsRuleLine) IN
        /\ Len(lines) = Len(results)
        /\ \A j \in 1..Len(lines) : LineOf(lines[j], j)

\* C6: checkConditions returns null exactly when settings is absent or
\* settings.rules is not an array; it returns true for the empty rule
\* array; otherwise what it returns is a boolean.
C6_NullOrBoolean ==
    /\ (pc = "done" /\ ~Entered) => ret = Return(Null)
    /\ (Returned /\ Entered) => ret.value.t = "boolean"
    /\ (Returned /\ Entered /\ settings.rules = <<>>) => ret.value = B(TRUE)

\* settings with a satisfy policy whose rules is not an array give null
C6_Witness ==
    /\ Returned
    /\ settings.isSet
    /\ ~settings.rulesIsArray
    /\ settings.satisfy = ALL
    /\ ret.value = Null

\* the indexes of the rules transformValueFn was called for, in call order
TransformedRules ==
    LET isTransform(c) == c.fn = "transformValueFn"
        made == SelectSeq(calls, isTransform)
    IN  [k \in 1..Len(made) |-> made[k].rule]

\* C7: a crosses rule without previousValueFn raises the configuration
\* error when evaluation reaches it, every earlier rule evaluated and every
\* transformValueFn call up to that rule made; with previousValueFn its
\* result is targetValue > lastValue && targetValue <= value.
C7_Crosses ==
    /\ (Threw /\ ret.error = CrossesError) =>
          /\ RuleAt(index + 1).op = "crosses"
          /\ settings.previousValueFn = <<>>
          /\ Len(results) = index
          /\ settings.transformValueFn # "none" =>
                TransformedRules = [k \in 1..(index + 1) |-> k - 1]
    /\ (/\ pc = "done"
        /\ Entered
        /\ index < Len(settings.rules)
        /\ RuleAt(index + 1).op = "crosses"
        /\ settings.previousValueFn = <<>>
        /\ Truthy(RuleAt(index + 1).property)
        /\ ~includes(RuleAt(index + 1).property.s, Wildcard))
       => ret = Throw(CrossesError)
    /\ \A j \in 1..Len(results) :
          RuleAt(j).op = "crosses" =>
              LET target == TargetOf(RuleAt(j))
                  last == settings.previousValueFn[1]
              IN  /\ settings.previousValueFn # <<>>
                  /\ results[j] = (Gt(target, last) /\ Lte(target, values[j]))
                  /\ (target.t = "number" /\ last.t = "number"
                      /\ values[j].t = "number")
                     => results[j] = (target.n > last.n /\ target.n <= values[j].n)

\* the error is raised at the crosses rule, after an earlier rule was
\* evaluated and transformValueFn called for both
C7_Witness ==
    /\ Threw
    /\ ret.error = CrossesError
    /\ index = 1
    /\ Len(results) = 1
    /\ TransformedRules = <<0, 1>>

\* C9: for a property holding the marker [] exactly once, whose collection
\* path (the text before the marker) resolves to an array, the value
\* compared is the array whose i-th element is get(collection[i], itemPath)
\* (itemPath: the text after the marker minus its first character), or
\* collection[i] itself when itemPath is empty.
C9_WildcardValue ==
    \A j \in 1..Len(results) :
        LET p == RuleAt(j).property.s
            markers == {k \in 1..Len(p) : OccursAt(p, Wildcard, k)}
        IN  Cardinality(markers) = 1 =>
                LET k == CHOOSE m \in markers : TRUE
                    collection == Get(variant, reference, S(SubSeq(p, 1, k - 1)))
                    itemPath == SubSeq(p, k + 3, Len(p))
                IN  IsArray(collection) =>
                        /\ IsArray(values[j])
                        /\ Len(values[j].a) = Len(collection.a)
                        /\ \A i \in 1..Len(collection.a) :
                              values[j].a[i] =
                                  IF itemPath # <<>>
                                  THEN Get(variant, collection.a[i], S(itemPath))
                                  ELSE collection.a[i]

\* m[].v over [{v: 1}, {v: 0}, null] compares [1, 0, undefined]
C9_Witness ==
    /\ Len(results) = 1
    /\ RuleAt(1).property = S(<<"m", "[", "]", ".", "v">>)
    /\ values[1] = A(<<N(1), N(0), Undef>>)

RECURSIVE ManualWalk(_, _)
ManualWalk(o, p) ==
    IF p = <<>> THEN o
    ELSE IF IsNullish(o) THEN Undef
    ELSE ManualWalk(Index(o, toKey(Head(p))), Tail(p))

\* C8: get(o, p), p a sequence of keys, is the result of indexing o by the
\* keys of p one after another: undefined once an intermediate container
\* is null or undefined, undefined for the empty path, null when null is
\* reached at the last key.
C8_GetWalksKeys ==
    gcall.called =>
        gcall.result = IF gcall.path = <<>> THEN Undef
                       ELSE ManualWalk(gcall.object, gcall.path)

\* C10: the cache of stringToPath never holds more than MAX_MEMOIZE_SIZE
\* entries; a call made while it holds exactly that many clears it before
\* the lookup; every call returns what the tokenizer returns for its string.
C10_CappedCache ==
    /\ Cardinality(DOMAIN cache) <= MAX_MEMOIZE_SIZE
    /\ memo.called =>
          /\ memo.result = stringToPathFunc(memo.key)
          /\ memo.key \in DOMAIN cache
          /\ cache[memo.key] = memo.result
          /\ memo.sizeBefore = MAX_MEMOIZE_SIZE =>
                (DOMAIN cache = {memo.key} /\ ~memo.hit)
          /\ memo.sizeBefore # MAX_MEMOIZE_SIZE => memo.hit = memo.wasCached

\* a string that was cached is passed while the cache is full: the cache
\* is reset and the path recomputed
C10_Witness ==
    /\ memo.called
    /\ memo.sizeBefore = MAX_MEMOIZE_SIZE
    /\ memo.wasCached
    /\ ~memo.hit
    /\ memo.result = stringToPathFunc(memo.key)
    /\ Cardinality(DOMAIN cache) = 1

=============================================================================
